---- MODULE Spec2Model ----
(***************************************************************************)
(* Family-event registration backend: POST /save, POST /delete and         *)
(* GET /edit-count of the four revisions of the server kept in the         *)
(* repository:                                                             *)
(*   "flat"  src/server.js 1-201         CSV file + in-memory adminData    *)
(*   "doc"   src/server.js 202-487       document store, updateMany edit   *)
(*   "async" src/unnamed/part_000 1-329  document store, fs.promises       *)
(*   "sync"  src/unnamed/part_000 330-656 document store, fs sync          *)
(* A handler is cut at its awaits: one action is the effect of the awaited *)
(* operation followed by the synchronous code up to the next await.  The   *)
(* await of connectDB/getCollection touches no modelled state and is       *)
(* folded into the step before it.                                         *)
(*                                                                         *)
(* A JavaScript object is a function from key strings to values.  Of the   *)
(* record fields only name, email, relation and submittedAt are kept (the  *)
(* others follow the same `x || default' pattern); request bodies always   *)
(* carry phone and address and never a date.  An email is a sequence of    *)
(* characters, so that toLowerCase is computed; an absent or empty value   *)
(* is "" (<< >> for an email), both falsy in the code.                     *)
(***************************************************************************)
EXTENDS Naturals, Sequences, FiniteSets, TLC

VARIABLES
    variant,    \* which revision of the server runs
    store,      \* adminData ("flat") or the `entries' collection, in insertion order
    ledger,     \* edit_counts.json: identity key -> count
    corrupt,    \* edit_counts.json does not parse (and holds no counts)
    csv,        \* rows of family_event_data.csv below the header
    csvAppend,  \* the csv writer's append flag
    clock,      \* source of submittedAt (new Date()), one tick per request
    reqs,       \* per slot: the request in flight
    last,       \* the request answered last, with its response, until the next one arrives
    succ,       \* observer: saves answered 200 per key since the key's last reset
    before,     \* observer: the store as the request in flight found it
    tz,         \* the server's local time zone: at or ahead of UTC, or behind it
    adminRecs,  \* GET /admin: the documents of the collection, with their dates
    adminOut,   \* GET /admin: the query and the rows of the last listing
    mirror      \* the records written to a new CSV file and what a start-up loads from it

\* what only some specifications use
admin == <<tz, adminRecs, adminOut>>
aux == <<before, admin, mirror>>
vars == <<variant, store, ledger, corrupt, csv, csvAppend, clock, reqs, last, succ, aux>>

\* ---------------------------------------------------------------- bounds
MaxClock == 4
MaxSeqClock == 3
MaxInflight == 2
MaxFamily == 2

\* ------------------------------------------------------------- constants
EditLimit == 3

Variants == {"flat", "doc", "async", "sync"}
DocVariants == {"doc", "async", "sync"}
ListVariants == {"async", "sync"}

SelfPrimary == "Self (Primary)"
NA == "N/A"
NAEmail == <<"N", "/", "A">>

\* --------------------------------------------------------------- strings
LowerChar(c) ==
    CASE c = "A" -> "a"
      [] c = "B" -> "b"
      [] c = "N" -> "n"
      [] OTHER -> c

ToLowerCase(s) == [i \in DOMAIN s |-> LowerChar(s[i])]

\* String.prototype.trim for the white space used here
RECURSIVE Trim(_)
Trim(cs) ==
    IF cs = << >> THEN cs
    ELSE IF Head(cs) = " " THEN Trim(Tail(cs))
    ELSE IF cs[Len(cs)] = " " THEN Trim(SubSeq(cs, 1, Len(cs) - 1))
    ELSE cs

\* ---------------------------------------------------------------- inputs
Emails == {<<"a">>, <<"A">>, <<"b">>}
\* the same address with white space around it
PaddedEmails == {<<"a", " ">>, <<" ", "A">>}
Keys == {ToLowerCase(e) : e \in Emails \cup PaddedEmails}

Person(n, e, r) == [name |-> n, email |-> e, relation |-> r]

\* the i-th family member of a body
Member(i) == Person("F" \o ToString(i), << >>, "")
FamilyLists == {[i \in 1..n |-> Member(i)] : n \in 0..MaxFamily}

Primaries == {Person(n, e, r) : n \in {"P", ""}, e \in Emails \cup {<< >>}, r \in {"", "Head"}}
SecondPrimary == Person("Q", <<"b">>, "")

\* req.body of POST /save; primary is a list (of at most one entry where the
\* revision takes an object, << >> when it is absent)
Body(p, f) == [primary |-> p, family |-> f]
ObjectBodies == {Body(p, f) : p \in {<< >>} \cup {<<x>> : x \in Primaries}, f \in FamilyLists}
ListBodies == ObjectBodies \cup {Body(<<x, SecondPrimary>>, f) : x \in Primaries, f \in FamilyLists}
Bodies(v) == IF v \in ListVariants THEN ListBodies ELSE ObjectBodies
SimpleBodies == {Body(<<Person("P", e, "")>>, << >>) : e \in Emails}
\* one identity under both spellings of its email
Spellings == {e \in Emails : ToLowerCase(e) = <<"a">>}
SpelledBodies == {Body(<<Person("P", e, "")>>, << >>) : e \in Spellings}

Passwords == {"adminpswd6885", "guess"}
ADMIN_PASSWORD == "adminpswd6885"

\* ------------------------------------------------------------ the ledger
Count(counts, k) == IF k \in DOMAIN counts THEN counts[k] ELSE 0

LimitReachedOff(c) == c > EditLimit
LimitReached(c) == c >= EditLimit

SetCount(counts, k, c) == (k :> c) @@ counts
DeleteCountToZero(counts, k) == SetCount(counts, k, 0)
DeleteCount(counts, k) == [x \in DOMAIN counts \ {k} |-> counts[x]]

\* GET /edit-count/:email
GetEditCountOne(e) ==
    IF ToLowerCase(e) \in DOMAIN ledger THEN ledger[ToLowerCase(e)] ELSE 1
GetEditCount(e) == Count(ledger, ToLowerCase(e))

\* --------------------------------------------------------- materializers
Or(x, d) == IF x = "" THEN d ELSE x
OrEmail(x, d) == IF x = << >> THEN d ELSE x

\* "flat": objects keyed by the CSV titles
FlatRecord(p, rel, t) ==
    [k \in {"Name", "Email", "Relation to Primary", "Submitted At"} |->
        CASE k = "Name" -> Or(p.name, NA)
          [] k = "Email" -> OrEmail(p.email, NAEmail)
          [] k = "Relation to Primary" -> rel
          [] k = "Submitted At" -> t]

DocRecord(n, e, rel, t) == [name |-> n, email |-> e, relation |-> rel, submittedAt |-> t]

FamilyLabel(i) == "Family Member " \o ToString(i)

\* the batch one body materializes into ("flat" keeps family.slice(0, 10),
\* all of a family of at most MaxFamily)
NewRecords(v, b, t) ==
    LET p == b.primary[1]
        f == b.family
    IN  CASE v = "flat" ->
               <<FlatRecord(p, SelfPrimary, t)>>
               \o [i \in 1..Len(f) |-> FlatRecord(f[i], Or(f[i].relation, NA), t)]
          [] v = "doc" ->
               <<DocRecord(Or(p.name, NA), OrEmail(p.email, NAEmail), SelfPrimary, t)>>
               \o [i \in 1..Len(f) |->
                     DocRecord(Or(f[i].name, NA), OrEmail(p.email, NAEmail),
                               Or(f[i].relation, IF i = 1 THEN "Spouse" ELSE FamilyLabel(i)), t)]
          [] OTHER ->
               [i \in 1..Len(b.primary) |->
                     DocRecord(Or(b.primary[i].name, NA), OrEmail(b.primary[i].email, NAEmail),
                               Or(b.primary[i].relation, SelfPrimary), t)]
               \o [i \in 1..Len(f) |->
                     DocRecord(Or(f[i].name, NA), OrEmail(p.email, NAEmail),
                               Or(f[i].relation, FamilyLabel(i)), t)]

\* insertMany gives each document its _id
WithIds(recs, t) == [i \in 1..Len(recs) |-> recs[i] @@ ("id" :> <<t, i>>)]

\* the required-field check of POST /save (phone and address, which "async"
\* and "sync" ask for as well, come with every body)
MissingRequired(b) ==
    \/ b.primary = << >>
    \/ b.primary[1].email = << >>
    \/ b.primary[1].name = ""

\* ----------------------------------------------------------- the mirror
CsvIds == {"name", "email", "relation", "submittedAt"}
Blank(h) == CASE h = "email" -> << >> [] h = "submittedAt" -> 0 [] OTHER -> ""

\* csv-writer's stringifier: record[header.id] per header, '' where undefined
CsvRow(r) == [h \in CsvIds |-> IF h \in DOMAIN r THEN r[h] ELSE Blank(h)]
CsvRows(recs) == [i \in 1..Len(recs) |-> CsvRow(recs[i])]

\* csvWriter.writeRecords: the writer's first write truncates the file,
\* its later writes append
Written(file, rows) == IF csvAppend THEN file \o rows ELSE rows

\* ---------------------------------------------------------- the requests
Slots == 1..MaxInflight

Idle ==
    [kind |-> "none", pc |-> "idle", email |-> << >>, key |-> << >>, famLen |-> 0,
     t |-> 0, editCounts |-> << >>, editCount |-> 0, newRecords |-> << >>,
     latestIds |-> {}, allRecords |-> << >>, status |-> 0, msg |-> "",
     csvFailed |-> FALSE, hadRecords |-> FALSE]

Running(s) == reqs[s].pc # "idle"

\* a new request takes the first free slot
Free(s) == ~Running(s) /\ \A x \in Slots : x < s => Running(x)

\* res.status(status).json(...): the handler is over, its locals are gone
Respond(s, r, status, msg) ==
    /\ reqs' = [reqs EXCEPT ![s] = Idle]
    /\ last' = [r EXCEPT !.pc = "done", !.status = status, !.msg = msg,
                         !.editCounts = << >>, !.allRecords = << >>, !.latestIds = {}]

\* the email of a stored record, whatever its key is called
RecEmail(r) == IF "email" \in DOMAIN r THEN r.email ELSE r["Email"]
Belongs(r, k) == ToLowerCase(RecEmail(r)) = k

Bump(k) == [succ EXCEPT ![k] = @ + 1]

TypeOK ==
    /\ variant \in Variants
    /\ csvAppend \in BOOLEAN
    /\ clock \in 1..(MaxClock + 1)
    /\ DOMAIN ledger \subseteq Keys

\* no CSV file written and re-read
NoMirror == [in |-> << >>, out |-> << >>, loaded |-> FALSE]

\* no GET /admin yet
NoListing == [month |-> << >>, year |-> << >>, rows |-> << >>]

AuxIdle ==
    /\ before = << >>
    /\ tz = "UTC"
    /\ adminRecs = {}
    /\ adminOut = NoListing
    /\ mirror = NoMirror

Init ==
    /\ variant \in Variants
    /\ corrupt = FALSE
    /\ store = << >>
    /\ ledger = << >>
    /\ csv = << >>
    \* the start-up wrote the header of a file that was not there (TRUE), or a
    \* file without rows was left by an earlier run and the writer is new (FALSE)
    /\ csvAppend \in BOOLEAN
    /\ clock = 1
    /\ reqs = [s \in Slots |-> Idle]
    /\ last = Idle
    /\ succ = [k \in Keys |-> 0]
    /\ AuxIdle

\* a request arrives: the answer to the one before it has been delivered
Arrive == last' = Idle

\* ------------------------------------------------------------ POST /save
\* adminData.filter(r => r.email !== primary.email || r['Submitted At'] !== submittedAt)
FlatKeep(r, e, t) ==
    \/ "email" \notin DOMAIN r
    \/ r.email # e
    \/ r["Submitted At"] # t

\* fs.writeFileSync / saveEditCounts: the file holds the JSON text of counts
WriteLedger(counts) == ledger' = counts /\ corrupt' = FALSE

\* what an operation that catches the parse error goes on with: {}
OrEmpty == IF corrupt THEN << >> ELSE ledger

\* the quota gate and what the handler does before its next await; "flat"
\* then sorts adminData by 'Date of Event', which no body here supplies: the
\* comparator gives NaN for every pair and the order stays as it is
Gate(s, r, counts) ==
    LET c == Count(counts, r.key)
        rc == [r EXCEPT !.editCounts = counts, !.editCount = c]
    IN  IF LimitReached(c)
        THEN /\ Respond(s, [rc EXCEPT !.newRecords = << >>], 400, "limit")
             /\ UNCHANGED <<store, ledger, corrupt>>
        ELSE IF variant = "flat"
        THEN /\ WriteLedger(SetCount(counts, r.key, c + 1))
             /\ store' = SelectSeq(store, LAMBDA x : FlatKeep(x, r.email, r.t)) \o r.newRecords
             /\ reqs' = [reqs EXCEPT ![s] = [rc EXCEPT !.pc = "csv", !.editCounts = << >>]]
             /\ IF r.pc = "load" THEN UNCHANGED last ELSE Arrive
        ELSE /\ reqs' = [reqs EXCEPT ![s] =
                            [rc EXCEPT !.pc = IF c = 0 THEN "insert"
                                              ELSE IF variant = "doc" THEN "find"
                                              ELSE "delete"]]
             /\ IF r.pc = "load" THEN UNCHANGED last ELSE Arrive
             /\ UNCHANGED <<store, ledger, corrupt>>

SaveBegin(s, b) ==
    /\ Free(s)
    /\ IF MissingRequired(b)
       THEN /\ Respond(s, [Idle EXCEPT !.kind = "save", !.t = clock],
                       IF variant = "flat" THEN 500 ELSE 400, "missing")
            /\ UNCHANGED <<store, ledger, corrupt, clock>>
       ELSE LET e == b.primary[1].email
                r == [Idle EXCEPT !.kind = "save", !.email = e, !.key = ToLowerCase(e),
                                  !.famLen = Len(b.family), !.t = clock,
                                  !.newRecords = NewRecords(variant, b, clock),
                                  !.hadRecords = \E i \in DOMAIN store :
                                                     Belongs(store[i], ToLowerCase(e))]
            IN  /\ clock <= MaxClock
                /\ clock' = clock + 1
                /\ IF variant = "async"
                   THEN /\ reqs' = [reqs EXCEPT ![s] = [r EXCEPT !.pc = "load"]]
                        /\ Arrive
                        /\ UNCHANGED <<store, ledger, corrupt>>
                   ELSE IF corrupt /\ variant = "flat"
                   THEN /\ Respond(s, r, 500, "ledger")
                        /\ UNCHANGED <<store, ledger, corrupt>>
                   ELSE Gate(s, r, OrEmpty)
    /\ UNCHANGED <<variant, csv, csvAppend, succ>>

\* "async": await loadEditCounts()
SaveLoad(s) ==
    /\ reqs[s].kind = "save" /\ reqs[s].pc = "load"
    /\ Gate(s, reqs[s], OrEmpty)
    /\ UNCHANGED <<variant, csv, csvAppend, clock, succ, aux>>

\* "doc": find({email}).sort({submittedAt: -1}).limit(1 + family.length);
\* the order among equal submittedAt is the store's to choose
Latest(k, n) ==
    LET match == {i \in DOMAIN store : store[i].email = k}
        m == IF Cardinality(match) < n THEN Cardinality(match) ELSE n
    IN  {S \in SUBSET match :
            /\ Cardinality(S) = m
            /\ \A x \in S, y \in match \ S : store[x].submittedAt >= store[y].submittedAt}

SaveFind(s) ==
    /\ reqs[s].kind = "save" /\ reqs[s].pc = "find"
    /\ \E S \in Latest(ToLowerCase(reqs[s].email), 1 + reqs[s].famLen) :
          reqs' = [reqs EXCEPT ![s] =
                      [@ EXCEPT !.latestIds = {store[i].id : i \in S},
                                !.pc = IF S = {} THEN "insert" ELSE "update"]]
    /\ UNCHANGED <<variant, last, store, ledger, corrupt, csv, csvAppend, clock, succ, aux>>

\* after the store call: editCounts[emailKey] = ...; then the ledger is saved
\* at once (writeFileSync) or behind one more await ("async")
Counted(s, c) ==
    LET counts == SetCount(reqs[s].editCounts, reqs[s].key, c)
    IN  IF variant = "async"
        THEN /\ reqs' = [reqs EXCEPT ![s] = [@ EXCEPT !.editCounts = counts, !.pc = "ledger"]]
             /\ UNCHANGED <<ledger, corrupt, last>>
        ELSE /\ reqs' = [reqs EXCEPT ![s] = [@ EXCEPT !.editCounts = << >>, !.pc = "scan"]]
             /\ WriteLedger(counts)
             /\ UNCHANGED last

\* "doc": updateMany({_id: {$in: latestIds}}, {$set: {...updatedRecords[0], submittedAt}})
SetPrimary(d, p) ==
    [d EXCEPT !.name = p.name, !.email = p.email, !.relation = p.relation,
              !.submittedAt = p.submittedAt]

SaveUpdate(s) ==
    /\ reqs[s].kind = "save" /\ reqs[s].pc = "update"
    /\ store' = [i \in DOMAIN store |->
                    IF store[i].id \in reqs[s].latestIds
                    THEN SetPrimary(store[i], reqs[s].newRecords[1])
                    ELSE store[i]]
    /\ Counted(s, reqs[s].editCount + 1)
    /\ UNCHANGED <<variant, csv, csvAppend, clock, succ, aux>>

\* "async", "sync": deleteMany({email: emailKey})
DeleteMany(docs, k) == SelectSeq(docs, LAMBDA d : d.email # k)

SaveDelete(s) ==
    /\ reqs[s].kind = "save" /\ reqs[s].pc = "delete"
    /\ store' = DeleteMany(store, reqs[s].key)
    /\ reqs' = [reqs EXCEPT ![s] = [@ EXCEPT !.pc = "insert"]]
    /\ UNCHANGED <<variant, last, ledger, corrupt, csv, csvAppend, clock, succ, aux>>

\* insertMany(newRecords)
NextCount(v, c) == IF c > 0 /\ v # "doc" THEN c + 1 ELSE 1

SaveInsert(s) ==
    /\ reqs[s].kind = "save" /\ reqs[s].pc = "insert"
    /\ store' = store \o WithIds(reqs[s].newRecords, reqs[s].t)
    /\ Counted(s, NextCount(variant, reqs[s].editCount))
    /\ UNCHANGED <<variant, csv, csvAppend, clock, succ, aux>>

\* "async": await saveEditCounts(editCounts)
SaveLedger(s) ==
    /\ reqs[s].kind = "save" /\ reqs[s].pc = "ledger"
    /\ WriteLedger(reqs[s].editCounts)
    /\ reqs' = [reqs EXCEPT ![s] = [@ EXCEPT !.editCounts = << >>, !.pc = "scan"]]
    /\ UNCHANGED <<variant, last, store, csv, csvAppend, clock, succ, aux>>

\* find({}).toArray()
SaveScan(s) ==
    /\ reqs[s].kind = "save" /\ reqs[s].pc = "scan"
    /\ reqs' = [reqs EXCEPT ![s] = [@ EXCEPT !.allRecords = store, !.pc = "csv"]]
    /\ UNCHANGED <<variant, last, store, ledger, corrupt, csv, csvAppend, clock, succ, aux>>

\* await csvWriter.writeRecords(...), then the response; ok: the write succeeds
SaveCsv(s, ok) ==
    /\ reqs[s].kind = "save" /\ reqs[s].pc = "csv"
    /\ LET rows == CsvRows(IF variant = "flat" THEN reqs[s].newRecords
                           ELSE reqs[s].allRecords)
           swallowed == variant \in {"doc", "sync"}
           r == [reqs[s] EXCEPT !.csvFailed = ~ok]
       IN  /\ IF ok
              THEN csv' = Written(csv, rows) /\ csvAppend' = TRUE
              ELSE UNCHANGED <<csv, csvAppend>>
           /\ IF ok \/ swallowed
              THEN /\ Respond(s, r, 200, "saved")
                   /\ succ' = Bump(r.key)
              ELSE /\ Respond(s, r, 500, "error")
                   /\ UNCHANGED succ
    /\ UNCHANGED <<variant, store, ledger, corrupt, clock, aux>>

\* ---------------------------------------------------------- POST /delete
\* "flat": adminData.filter(r => r.email.toLowerCase() !== email?.toLowerCase());
\* r.email is undefined on a record keyed by titles, and the call throws
FlatFilterThrows(recs) == \E i \in DOMAIN recs : "email" \notin DOMAIN recs[i]
FlatFilter(recs, e) == SelectSeq(recs, LAMBDA r : ToLowerCase(r.email) # ToLowerCase(e))

DeleteBegin(s, e, pw) ==
    /\ Free(s)
    /\ LET r == [Idle EXCEPT !.kind = "delete", !.email = e, !.key = ToLowerCase(e),
                             !.t = clock]
       IN  IF pw # ADMIN_PASSWORD
           THEN /\ Respond(s, r, 401, "unauthorized")
                /\ UNCHANGED <<store, clock>>
           ELSE /\ clock <= MaxClock
                /\ clock' = clock + 1
                /\ IF variant # "flat"
                   THEN /\ reqs' = [reqs EXCEPT ![s] = [r EXCEPT !.pc = "ddelete"]]
                        /\ Arrive
                        /\ UNCHANGED store
                   ELSE IF FlatFilterThrows(store)
                   THEN /\ Respond(s, r, 500, "error")
                        /\ UNCHANGED store
                   ELSE /\ store' = FlatFilter(store, e)
                        /\ reqs' = [reqs EXCEPT ![s] =
                                       [r EXCEPT !.allRecords = FlatFilter(store, e),
                                                 !.pc = "dcsv"]]
                        /\ Arrive
    /\ UNCHANGED <<variant, ledger, corrupt, csv, csvAppend, succ>>

\* deleteMany({email: email.toLowerCase()})
DeleteDelete(s) ==
    /\ reqs[s].kind = "delete" /\ reqs[s].pc = "ddelete"
    /\ store' = DeleteMany(store, ToLowerCase(reqs[s].email))
    /\ reqs' = [reqs EXCEPT ![s] = [@ EXCEPT !.pc = "dscan"]]
    /\ UNCHANGED <<variant, last, ledger, corrupt, csv, csvAppend, clock, succ, aux>>

\* find({}).toArray()
DeleteScan(s) ==
    /\ reqs[s].kind = "delete" /\ reqs[s].pc = "dscan"
    /\ reqs' = [reqs EXCEPT ![s] = [@ EXCEPT !.allRecords = store, !.pc = "dcsv"]]
    /\ UNCHANGED <<variant, last, store, ledger, corrupt, csv, csvAppend, clock, succ, aux>>

\* the ledger entry of k is removed from the file
Reset(k) == succ' = [succ EXCEPT ![k] = 0]

\* await csvWriter.writeRecords(...), then the edit count is reset
DeleteCsv(s, ok) ==
    /\ reqs[s].kind = "delete" /\ reqs[s].pc = "dcsv"
    /\ LET r == [reqs[s] EXCEPT !.csvFailed = ~ok]
       IN  /\ IF ok
              THEN csv' = Written(csv, CsvRows(r.allRecords)) /\ csvAppend' = TRUE
              ELSE UNCHANGED <<csv, csvAppend>>
           /\ CASE variant = "flat" ->
                     /\ IF ok THEN Respond(s, r, 200, "deleted")
                        ELSE Respond(s, r, 500, "error")
                     /\ UNCHANGED <<ledger, corrupt, succ>>
                [] variant \in {"doc", "sync"} ->
                     IF corrupt
                     THEN /\ Respond(s, r, 500, "ledger")
                          /\ UNCHANGED <<ledger, corrupt, succ>>
                     ELSE /\ WriteLedger(DeleteCount(ledger, r.key))
                          /\ Respond(s, r, 200, "deleted")
                          /\ Reset(r.key)
                [] OTHER ->
                     /\ IF ok
                        THEN /\ reqs' = [reqs EXCEPT ![s] =
                                            [r EXCEPT !.allRecords = << >>, !.pc = "dload"]]
                             /\ UNCHANGED last
                        ELSE Respond(s, r, 500, "error")
                     /\ UNCHANGED <<ledger, corrupt, succ>>
    /\ UNCHANGED <<variant, store, clock, aux>>

\* "async": await loadEditCounts(); delete editCounts[email.toLowerCase()]
DeleteLoad(s) ==
    /\ reqs[s].kind = "delete" /\ reqs[s].pc = "dload"
    /\ reqs' = [reqs EXCEPT ![s] =
                   [@ EXCEPT !.editCounts = DeleteCount(OrEmpty, reqs[s].key), !.pc = "dsave"]]
    /\ UNCHANGED <<variant, last, store, ledger, corrupt, csv, csvAppend, clock, succ, aux>>

\* "async": await saveEditCounts(editCounts)
DeleteSave(s) ==
    /\ reqs[s].kind = "delete" /\ reqs[s].pc = "dsave"
    /\ WriteLedger(reqs[s].editCounts)
    /\ Respond(s, reqs[s], 200, "deleted")
    /\ Reset(reqs[s].key)
    /\ UNCHANGED <<variant, store, csv, csvAppend, clock, aux>>

\* -------------------------------------------------------- specifications
\* the steps every request takes once it has begun; ok: the mirror write succeeds
Step(s, oks) ==
    \/ SaveLoad(s)
    \/ SaveFind(s)
    \/ SaveUpdate(s)
    \/ SaveDelete(s)
    \/ SaveInsert(s)
    \/ SaveLedger(s)
    \/ SaveScan(s)
    \/ \E ok \in oks : SaveCsv(s, ok)
    \/ DeleteDelete(s)
    \/ DeleteScan(s)
    \/ \E ok \in oks : DeleteCsv(s, ok)
    \/ DeleteLoad(s)
    \/ DeleteSave(s)

NoneRunning == \A s \in Slots : ~Running(s)

\* requests of one identity interleave at their awaits
Next ==
    \/ \E s \in Slots, b \in SpelledBodies : SaveBegin(s, b) /\ UNCHANGED aux
    \/ \E s \in Slots, e \in Spellings : DeleteBegin(s, e, ADMIN_PASSWORD) /\ UNCHANGED aux
    \/ \E s \in Slots : Step(s, {TRUE})

Spec == Init /\ [][Next]_vars

\* requests run one at a time; every shape of body
NextSeq ==
    \/ \E b \in Bodies(variant) :
          NoneRunning /\ clock <= MaxSeqClock /\ SaveBegin(1, b) /\ UNCHANGED aux
    \/ \E e \in Emails, pw \in Passwords :
          NoneRunning /\ clock <= MaxSeqClock /\ DeleteBegin(1, e, pw) /\ UNCHANGED aux
    \/ Step(1, {TRUE})

SpecSeq == Init /\ [][NextSeq]_vars

\* requests run one at a time; the mirror write may fail
NextFault ==
    \/ \E b \in SimpleBodies : NoneRunning /\ SaveBegin(1, b) /\ UNCHANGED aux
    \/ \E e \in Emails : NoneRunning /\ DeleteBegin(1, e, ADMIN_PASSWORD) /\ UNCHANGED aux
    \/ Step(1, BOOLEAN)

SpecFault == Init /\ [][NextFault]_vars

\* a store call of POST /save rejects: the handler's catch answers 500.  An
\* insertMany({ordered: false}) that rejects may have written some of its
\* documents (here: the first n of them)
SaveStoreFails(s) ==
    /\ reqs[s].kind = "save"
    /\ reqs[s].pc \in {"find", "update", "delete", "insert", "scan"}
    /\ \E n \in 0..(Len(reqs[s].newRecords) - 1) :
          store' = IF reqs[s].pc = "insert"
                   THEN store \o WithIds(SubSeq(reqs[s].newRecords, 1, n), reqs[s].t)
                   ELSE store
    /\ Respond(s, reqs[s], 500, "store")
    /\ UNCHANGED <<variant, ledger, corrupt, csv, csvAppend, clock, succ, aux>>

FamilyBodies == {Body(<<Person("P", e, "")>>, f) : e \in Emails, f \in FamilyLists}

\* requests run one at a time; a store call of POST /save may fail
NextStore ==
    \/ \E b \in FamilyBodies :
          NoneRunning /\ clock <= MaxSeqClock /\ SaveBegin(1, b)
          /\ before' = store /\ UNCHANGED <<admin, mirror>>
    \/ \E e \in Emails :
          NoneRunning /\ clock <= MaxSeqClock /\ DeleteBegin(1, e, ADMIN_PASSWORD)
          /\ before' = store /\ UNCHANGED <<admin, mirror>>
    \/ Step(1, {TRUE})
    \/ SaveStoreFails(1)

SpecStore == Init /\ [][NextStore]_vars

\* requests of two identities interleave at their awaits, those of one
\* identity run one after the other
Identities == {<<"a">>, <<"b">>}
NoneRunningFor(e) == \A s \in Slots : Running(s) => reqs[s].key # ToLowerCase(e)

NextTwo ==
    \/ \E s \in Slots, e \in Identities :
          /\ NoneRunningFor(e) /\ clock <= MaxSeqClock
          /\ SaveBegin(s, Body(<<Person("P", e, "")>>, << >>)) /\ UNCHANGED aux
    \/ \E s \in Slots, e \in Identities :
          /\ NoneRunningFor(e) /\ clock <= MaxSeqClock
          /\ DeleteBegin(s, e, ADMIN_PASSWORD) /\ UNCHANGED aux
    \/ \E s \in Slots : Step(s, {TRUE})

SpecTwo == Init /\ [][NextTwo]_vars

\* GET /edit-count/:email: the file is read and parsed in one go; only
\* loadEditCounts ("async") catches what the parse throws
EditCount(s, e) ==
    /\ Free(s)
    /\ LET r == [Idle EXCEPT !.kind = "count", !.email = e, !.key = ToLowerCase(e)]
       IN  IF corrupt /\ variant # "async"
           THEN Respond(s, r, 500, "ledger")
           ELSE Respond(s, [r EXCEPT !.editCount = GetEditCount(e)], 200, "count")
    /\ UNCHANGED <<variant, store, ledger, corrupt, csv, csvAppend, clock, succ, aux>>

\* requests run one at a time, edit-count queries among them
NextRead ==
    \/ \E b \in SimpleBodies :
          NoneRunning /\ clock <= MaxSeqClock /\ SaveBegin(1, b) /\ UNCHANGED aux
    \/ \E e \in Emails :
          NoneRunning /\ clock <= MaxSeqClock /\ DeleteBegin(1, e, ADMIN_PASSWORD)
          /\ UNCHANGED aux
    \/ \E e \in Emails : NoneRunning /\ EditCount(1, e)
    \/ Step(1, {TRUE})

SpecRead == Init /\ [][NextRead]_vars

\* something other than the server leaves edit_counts.json unparseable
\* (truncated, hand-edited): the counts it held are gone with its text
Corrupt ==
    /\ NoneRunning
    /\ ~corrupt
    /\ corrupt' = TRUE
    /\ ledger' = << >>
    /\ UNCHANGED <<variant, store, csv, csvAppend, clock, reqs, last, succ, aux>>

\* requests run one at a time; the ledger file may become unparseable
\* between two of them
NextCorrupt ==
    \/ \E b \in SimpleBodies :
          NoneRunning /\ clock <= MaxSeqClock /\ SaveBegin(1, b) /\ UNCHANGED aux
    \/ \E e \in Emails :
          NoneRunning /\ clock <= MaxSeqClock /\ DeleteBegin(1, e, ADMIN_PASSWORD)
          /\ UNCHANGED aux
    \/ \E e \in Emails : NoneRunning /\ EditCount(1, e)
    \/ Step(1, {TRUE})
    \/ Corrupt

SpecCorrupt == Init /\ [][NextCorrupt]_vars

\* "async": fs.writeFile rejects inside saveEditCounts, which logs the error
\* and returns; the handler goes on
SaveLedgerFails(s) ==
    /\ variant = "async"
    /\ reqs[s].kind = "save" /\ reqs[s].pc = "ledger"
    /\ reqs' = [reqs EXCEPT ![s] = [@ EXCEPT !.editCounts = << >>, !.pc = "scan"]]
    /\ UNCHANGED <<variant, last, store, ledger, corrupt, csv, csvAppend, clock, succ, aux>>

\* requests run one at a time; a store call, the ledger write of
\* saveEditCounts or the mirror write may fail
NextFail ==
    \/ \E b \in SimpleBodies :
          NoneRunning /\ clock <= MaxSeqClock /\ SaveBegin(1, b) /\ UNCHANGED aux
    \/ \E e \in Emails :
          NoneRunning /\ clock <= MaxSeqClock /\ DeleteBegin(1, e, ADMIN_PASSWORD)
          /\ UNCHANGED aux
    \/ Step(1, BOOLEAN)
    \/ SaveStoreFails(1)
    \/ SaveLedgerFails(1)

SpecFail == Init /\ [][NextFail]_vars

\* requests run one at a time; one address in several spellings, with and
\* without white space around it
PaddedSpellings == Spellings \cup PaddedEmails

NextPadded ==
    \/ \E e \in PaddedSpellings :
          /\ NoneRunning /\ clock <= MaxSeqClock
          /\ SaveBegin(1, Body(<<Person("P", e, "")>>, << >>)) /\ UNCHANGED aux
    \/ \E e \in PaddedSpellings :
          /\ NoneRunning /\ clock <= MaxSeqClock
          /\ DeleteBegin(1, e, ADMIN_PASSWORD) /\ UNCHANGED aux
    \/ \E e \in PaddedSpellings : NoneRunning /\ EditCount(1, e)
    \/ Step(1, {TRUE})

SpecPadded == Init /\ [][NextPadded]_vars

\* -------------------------------------------------------------- GET /admin
\* a date is the string the form sends ("YYYY-MM-DD"), character by character
Digits == <<"0", "1", "2", "3", "4", "5", "6", "7", "8", "9">>
IsDigit(c) == \E i \in 1..10 : Digits[i] = c
DigitOf(c) == (CHOOSE i \in 1..10 : Digits[i] = c) - 1

RECURSIVE NumberOf(_)
NumberOf(cs) ==
    IF cs = << >> THEN 0
    ELSE 10 * NumberOf(SubSeq(cs, 1, Len(cs) - 1)) + DigitOf(cs[Len(cs)])

\* !isNaN(x) for the query strings used here
IsNumber(cs) == cs # << >> /\ \A i \in DOMAIN cs : IsDigit(cs[i])

IsLeap(y) == (y % 4 = 0 /\ y % 100 # 0) \/ y % 400 = 0
DaysIn(m, y) ==
    CASE m \in {4, 6, 9, 11} -> 30
      [] m = 2 -> IF IsLeap(y) THEN 29 ELSE 28
      [] OTHER -> 31

NaN == [y |-> 0, m |-> 0, d |-> 0]
Epoch == [y |-> 1970, m |-> 1, d |-> 1]

\* new Date(string): the UTC day of a date-only string, NaN when unparseable
ParseDate(cs) ==
    IF /\ Len(cs) = 10
       /\ cs[5] = "-" /\ cs[8] = "-"
       /\ \A i \in {1, 2, 3, 4, 6, 7, 9, 10} : IsDigit(cs[i])
    THEN LET y == NumberOf(SubSeq(cs, 1, 4))
             m == NumberOf(SubSeq(cs, 6, 7))
             d == NumberOf(SubSeq(cs, 9, 10))
         IN  IF m \in 1..12 /\ d \in 1..DaysIn(m, y) THEN [y |-> y, m |-> m, d |-> d] ELSE NaN
    ELSE NaN

PrevDay(t) ==
    IF t.d > 1 THEN [t EXCEPT !.d = @ - 1]
    ELSE IF t.m > 1 THEN [y |-> t.y, m |-> t.m - 1, d |-> DaysIn(t.m - 1, t.y)]
    ELSE [y |-> t.y - 1, m |-> 12, d |-> 31]

\* getMonth(), getDate(), getFullYear() read the local day: midnight UTC is
\* the day before in a zone behind UTC
LocalDay(t, zone) == IF t = NaN \/ zone = "UTC" THEN t ELSE PrevDay(t)

\* a.dateOfEvent ? new Date(a.dateOfEvent) : new Date(0)
DateOf(r, zone) == LocalDay(IF r.date = << >> THEN Epoch ELSE ParseDate(r.date), zone)

\* (a.name || '').localeCompare(b.name || '') for the names used here
NameRank(n) == CASE n = "" -> 0 [] n = "A" -> 1 [] n = "B" -> 2 [] OTHER -> 3
Sign(a, b) == IF a < b THEN 0 - 1 ELSE IF a > b THEN 1 ELSE 0

\* the comparator of records.sort; months as 1..12 where getMonth gives 0..11
Compare(a, b, zone) ==
    LET dateA == DateOf(a, zone)
        dateB == DateOf(b, zone)
    IN  IF dateA = NaN \/ dateB = NaN THEN (IF dateA = NaN THEN 0 - 1 ELSE 1)
        ELSE IF dateA.m # dateB.m THEN Sign(dateA.m, dateB.m)
        ELSE IF dateA.d # dateB.d THEN Sign(dateA.d, dateB.d)
        ELSE IF dateA.y # dateB.y THEN Sign(dateA.y, dateB.y)
        ELSE Sign(NameRank(a.name), NameRank(b.name))

\* $regex: the pattern occurs in the string / at its start
Contains(cs, pat) == \E i \in 1..(Len(cs) - Len(pat) + 1) : SubSeq(cs, i, i + Len(pat) - 1) = pat
StartsWith(cs, pat) == Len(pat) <= Len(cs) /\ SubSeq(cs, 1, Len(pat)) = pat

\* String(month).padStart(2, '0')
PadStart2(cs) == IF Len(cs) < 2 THEN <<"0">> \o cs ELSE cs

ValidMonth(month) == IsNumber(month) /\ NumberOf(month) >= 1 /\ NumberOf(month) <= 12
ValidYear(year) == IsNumber(year)

MonthPattern(month) == <<"-">> \o PadStart2(month) \o <<"-">>
YearPattern(year) == year \o <<"-">>

\* the query of collection.find: "doc" ORs its conditions, "async" and "sync"
\* build one pattern
Matches(v, r, month, year) ==
    IF v = "doc"
    THEN \/ ~ValidMonth(month) /\ ~ValidYear(year)
         \/ ValidMonth(month) /\ Contains(r.date, MonthPattern(month))
         \/ ValidYear(year) /\ StartsWith(r.date, YearPattern(year))
    ELSE IF ValidMonth(month)
         THEN IF ValidYear(year)
              THEN StartsWith(r.date, YearPattern(year) \o PadStart2(month) \o <<"-">>)
              ELSE Contains(r.date, MonthPattern(month))
         ELSE IF ValidYear(year) THEN StartsWith(r.date, YearPattern(year))
         ELSE TRUE

\* records.sort(comparator): an order the comparator agrees with; where it
\* agrees with none, the order is the engine's to choose
Orders(S) == {q \in [1..Cardinality(S) -> S] : \A i, j \in DOMAIN q : i # j => q[i] # q[j]}
Agrees(q, zone) == \A i, j \in DOMAIN q : i < j => Compare(q[i], q[j], zone) <= 0
Sorted(S, zone) ==
    LET ok == {q \in Orders(S) : Agrees(q, zone)}
    IN  IF ok = {} THEN Orders(S) ELSE ok

\* GET /admin?month=&year= with the right password
Admin(month, year) ==
    /\ variant \in DocVariants
    /\ \E q \in Sorted({r \in adminRecs : Matches(variant, r, month, year)}, tz) :
          adminOut' = [month |-> month, year |-> year, rows |-> q]
    /\ UNCHANGED <<variant, store, ledger, corrupt, csv, csvAppend, clock, reqs, last, succ,
                   before, tz, adminRecs, mirror>>

\* the dates and names of the documents, the months and years of the queries
MaxAdminRecords == 3
Dash(y, m, d) == y \o <<"-">> \o m \o <<"-">> \o d
AdminDates ==
    {<< >>, <<"s", "o", "o", "n">>,
     Dash(<<"2", "0", "2", "5">>, <<"0", "3">>, <<"1", "5">>),
     Dash(<<"2", "0", "2", "4">>, <<"0", "3">>, <<"1", "5">>),
     Dash(<<"2", "0", "2", "5">>, <<"0", "1">>, <<"0", "5">>),
     Dash(<<"2", "0", "2", "5">>, <<"0", "1">>, <<"0", "1">>),
     Dash(<<"1", "9", "6", "0">>, <<"0", "1">>, <<"0", "1">>),
     Dash(<<"2", "0", "2", "4">>, <<"1", "2">>, <<"3", "1">>)}
AdminRecord(n, d) == [name |-> n, date |-> d]
AdminRecords == {AdminRecord(n, d) : n \in {"A", "B"}, d \in AdminDates}
Months == {<< >>, <<"3">>, <<"0", "1">>, <<"1", "3">>}
Years == {<< >>, <<"2", "0", "2", "5">>}
TimeZones == {"UTC", "behind"}

InitAdmin ==
    /\ variant \in DocVariants
    /\ store = << >> /\ ledger = << >> /\ corrupt = FALSE /\ csv = << >> /\ csvAppend = TRUE
    /\ clock = 1
    /\ reqs = [s \in Slots |-> Idle]
    /\ last = Idle
    /\ succ = [k \in Keys |-> 0]
    /\ before = << >>
    /\ tz \in TimeZones
    /\ adminRecs \in {S \in SUBSET AdminRecords : Cardinality(S) <= MaxAdminRecords}
    /\ adminOut = NoListing
    /\ mirror = NoMirror

NextAdmin == \E month \in Months, year \in Years : Admin(month, year)

SpecAdmin == InitAdmin /\ [][NextAdmin]_vars

\* ------------------------------------------ the CSV file, written and loaded
\* the header titles, each taken as one symbol; two of the ten columns
Headers == <<"Name", "Email">>
HeaderLine == <<Headers[1], ",">> \o <<Headers[2]>>

RECURSIVE Join(_, _)
Join(parts, sep) ==
    IF parts = << >> THEN << >>
    ELSE IF Len(parts) = 1 THEN parts[1]
    ELSE parts[1] \o sep \o Join(Tail(parts), sep)

\* value.replace(/"/g, '""')
RECURSIVE Doubled(_)
Doubled(cs) ==
    IF cs = << >> THEN << >>
    ELSE (IF Head(cs) = "\"" THEN <<"\"", "\"">> ELSE <<Head(cs)>>) \o Doubled(Tail(cs))

\* csv-writer's field stringifier: a value holding the delimiter, a quote or
\* a line break is put in quotes, its quotes doubled
Quoted(cs) ==
    IF \E i \in DOMAIN cs : cs[i] \in {",", "\"", "\n", "\r"}
    THEN <<"\"">> \o Doubled(cs) \o <<"\"">>
    ELSE cs

\* csvWriter.writeRecords on a new file: header line, then a line per record
CsvLine(rec) == Join([i \in DOMAIN rec |-> Quoted(rec[i])], <<",">>)
RECURSIVE Lines(_)
Lines(recs) == IF recs = << >> THEN << >> ELSE CsvLine(Head(recs)) \o <<"\n">> \o Lines(Tail(recs))
FileText(recs) == HeaderLine \o <<"\n">> \o Lines(recs)

\* csvData.split('\n')
RECURSIVE Split(_, _)
Split(cs, cur) ==
    IF cs = << >> THEN <<cur>>
    ELSE IF Head(cs) = "\n" THEN <<cur>> \o Split(Tail(cs), << >>)
    ELSE Split(Tail(cs), Append(cur, Head(cs)))

\* v.replace(/""/g, '"')
RECURSIVE Undoubled(_)
Undoubled(cs) ==
    IF Len(cs) < 2 THEN cs
    ELSE IF cs[1] = "\"" /\ cs[2] = "\"" THEN <<"\"">> \o Undoubled(SubSeq(cs, 3, Len(cs)))
    ELSE <<cs[1]>> \o Undoubled(Tail(cs))

\* v.startsWith('"') && v.endsWith('"') ? v.slice(1, -1).replace(/""/g, '"') : v
Unquoted(v) ==
    IF v # << >> /\ v[1] = "\"" /\ v[Len(v)] = "\""
    THEN Undoubled(SubSeq(v, 2, Len(v) - 1))
    ELSE v

\* the loop of parseCSVLine from position i on
RECURSIVE ParseFrom(_, _, _, _, _)
ParseFrom(line, i, inQuotes, currentValue, values) ==
    IF i > Len(line) THEN Append(values, Trim(currentValue))
    ELSE IF line[i] = "\"" /\ (i = 1 \/ line[i - 1] # "\\")
    THEN ParseFrom(line, i + 1, ~inQuotes, currentValue, values)
    ELSE IF line[i] = "," /\ ~inQuotes
    THEN ParseFrom(line, i + 1, inQuotes, << >>, Append(values, Trim(currentValue)))
    ELSE ParseFrom(line, i + 1, inQuotes, Append(currentValue, line[i]), values)

parseCSVLine(line) ==
    LET values == ParseFrom(line, 1, FALSE, << >>, << >>)
    IN  [i \in DOMAIN values |-> Unquoted(values[i])]

\* loadInitialData: the lines below the header that have as many values as
\* there are headers; an empty value reads 'N/A'.  The sort by 'Date of
\* Event' that follows finds no date in the columns kept here and leaves
\* the order as it is
LoadedRecord(values) == [i \in DOMAIN values |-> IF values[i] = << >> THEN NAEmail ELSE values[i]]
RECURSIVE LoadLines(_)
LoadLines(lines) ==
    IF lines = << >> THEN << >>
    ELSE LET values == parseCSVLine(Head(lines))
         IN  (IF Len(values) = Len(Headers) THEN <<LoadedRecord(values)>> ELSE << >>)
             \o LoadLines(Tail(lines))
loadInitialData(text) ==
    LET lines == SelectSeq(Split(text, << >>), LAMBDA l : Trim(l) # << >>)
    IN  IF Len(lines) > 1 THEN LoadLines(Tail(lines)) ELSE << >>

\* the server starts on the file that writeRecords(mirror.in) left
Restart ==
    /\ variant = "flat"
    /\ ~mirror.loaded
    /\ mirror' = [mirror EXCEPT !.out = loadInitialData(FileText(mirror.in)), !.loaded = TRUE]
    /\ UNCHANGED <<variant, store, ledger, corrupt, csv, csvAppend, clock, reqs, last, succ,
                   before, admin>>

\* the records written: field values of letters, commas and double quotes
MaxRecords == 2
MaxFieldLen == 2
FieldChars == {"x", ",", "\""}
FieldValues == UNION {[1..n -> FieldChars] : n \in 1..MaxFieldLen}
MirrorRecords == [1..Len(Headers) -> FieldValues]
MirrorInputs == UNION {[1..n -> MirrorRecords] : n \in 0..MaxRecords}

InitMirror ==
    /\ variant = "flat"
    /\ store = << >> /\ ledger = << >> /\ corrupt = FALSE /\ csv = << >> /\ csvAppend = TRUE
    /\ clock = 1
    /\ reqs = [s \in Slots |-> Idle]
    /\ last = Idle
    /\ succ = [k \in Keys |-> 0]
    /\ before = << >>
    /\ tz = "UTC" /\ adminRecs = {} /\ adminOut = NoListing
    /\ mirror \in {[in |-> recs, out |-> << >>, loaded |-> FALSE] : recs \in MirrorInputs}

NextMirror == Restart

SpecMirror == InitMirror /\ [][NextMirror]_vars

\* ---------------------------------------------------------------- claims
\* the last answer was `status' to a request of this kind, and none runs since
Done(kind, status) == NoneRunning /\ last.kind = kind /\ last.status = status
Answered(kind) == last' # last /\ last'.kind = kind

\* what a stored record says, whatever its keys are called
NameOf(r) == IF "name" \in DOMAIN r THEN r.name ELSE r["Name"]
RelationOf(r) == IF "relation" \in DOMAIN r THEN r.relation ELSE r["Relation to Primary"]
SubmittedAtOf(r) == IF "submittedAt" \in DOMAIN r THEN r.submittedAt ELSE r["Submitted At"]
Fields(r) ==
    [name |-> NameOf(r), email |-> RecEmail(r), relation |-> RelationOf(r),
     submittedAt |-> SubmittedAtOf(r)]
FieldsOf(recs) == [i \in 1..Len(recs) |-> Fields(recs[i])]
Of(recs, k) == SelectSeq(recs, LAMBDA r : Belongs(r, k))
NotOf(recs, k) == SelectSeq(recs, LAMBDA r : ~Belongs(r, k))

Occurrences(q, x) == Cardinality({i \in DOMAIN q : q[i] = x})
SameRows(p, q) ==
    /\ Len(p) = Len(q)
    /\ \A i \in DOMAIN p : Occurrences(p, p[i]) = Occurrences(q, p[i])

\* C1: with requests one at a time, an identity that has had n (1..3)
\* successful submissions since it last had no ledger entry has edit count n,
\* whatever the spelling of the email and the size of the family.
C1_CountIsNumberOfSaves ==
    NoneRunning =>
        \A e \in Emails :
            succ[ToLowerCase(e)] \in 1..EditLimit => GetEditCount(e) = succ[ToLowerCase(e)]

\* a save that read a count at the limit does not go on, and is answered 400
C2_Rejects ==
    /\ \A s \in Slots : reqs[s].kind = "save" => reqs[s].editCount < EditLimit
    /\ (last.kind = "save" /\ last.editCount >= EditLimit) =>
           (last.status = 400 /\ last.msg = "limit")
\* neither the step that reads the ledger at the limit and answers, nor the
\* step before it that only awaits the ledger, touches store, ledger or mirror
C2_RejectionChangesNothing ==
    /\ (Answered("save") /\ last'.msg = "limit") =>
           (last'.status = 400 /\ UNCHANGED <<store, ledger, csv, csvAppend>>)
    /\ \A s \in Slots :
           (reqs[s].pc = "idle" /\ reqs'[s].pc = "load") =>
               UNCHANGED <<store, ledger, csv, csvAppend>>
\* C2: a POST /save that finds the identity's count at the limit (>= 3) is
\* answered 400, and the request changes neither the store, nor the ledger,
\* nor the mirror.
C2_LimitRejectedWithoutEffect == [](C2_Rejects) /\ [][C2_RejectionChangesNothing]_vars
C2_Witness == last.kind = "save" /\ last.status = 400 /\ last.msg = "limit"

\* C3: between two resets of an identity at most 3 of its POST /save requests
\* are answered with success, however the requests interleave.
C3_AtMostThreeSuccesses == \A k \in Keys : succ[k] <= EditLimit

\* C4: every value in the edit ledger is an integer from 1 to 3.
C4_LedgerValuesInRange == \A k \in DOMAIN ledger : ledger[k] \in 1..EditLimit
C4_Witness == \E k \in DOMAIN ledger : ledger[k] = EditLimit

\* C5: after a POST /delete answered with success for email E, the store holds
\* no record of E's identity and the edit count of E is 0.
C5_DeleteRemovesIdentity ==
    Done("delete", 200) =>
        /\ Of(store, last.key) = << >>
        /\ GetEditCount(last.email) = 0

\* after a successful resubmission the identity's records are the new batch
C6_OnlyNewBatch ==
    (Done("save", 200) /\ last.hadRecords) =>
        FieldsOf(Of(store, last.key)) = FieldsOf(last.newRecords)
\* no step of a resubmission changes the records of another identity
C6_OthersUntouched ==
    \A s \in Slots :
        (reqs[s].kind = "save" /\ reqs[s].hadRecords) =>
            NotOf(store', reqs[s].key) = NotOf(store, reqs[s].key)
\* C6: after a successful resubmission by an identity that had records, the
\* store holds for that identity exactly the new batch, each record with its
\* own data, and no step of the request changes another identity's records.
C6_ResubmissionReplaces == [](C6_OnlyNewBatch) /\ [][C6_OthersUntouched]_vars

\* the step that answers a body with a required field missing
C7_MissingStep ==
    (Answered("save") /\ last'.msg = "missing") =>
        (last'.status = 400 /\ UNCHANGED <<store, ledger, csv, csvAppend>>)
\* C7: a POST /save without primary, primary email or primary name is
\* answered 400 and changes neither the store, nor the ledger, nor the mirror.
C7_MissingFieldsRejected == [][C7_MissingStep]_vars

\* primary first, the family in input order, one "Self (Primary)"; a request
\* is accepted once it is past the required-field check and the quota gate
BatchShape(batch, famLen) ==
    /\ Len(batch) = 1 + famLen
    /\ NameOf(batch[1]) = "P"
    /\ RelationOf(batch[1]) = SelfPrimary
    /\ \A i \in 1..famLen : NameOf(batch[1 + i]) = Member(i).name
    /\ Cardinality({i \in DOMAIN batch : RelationOf(batch[i]) = SelfPrimary}) = 1
\* C8: the batch of an accepted POST /save is the primary followed by the
\* family members in input order, and exactly one of its records has the
\* relation "Self (Primary)".
C8_BatchShape ==
    \A s \in Slots :
        (reqs[s].kind = "save" /\ reqs[s].pc # "load") =>
            BatchShape(reqs[s].newRecords, reqs[s].famLen)

\* C9: with requests one at a time, after a POST /save or POST /delete
\* answered with success the rows of the mirror are exactly the records of
\* the store.
C9_MirrorIsStore ==
    (Done("save", 200) \/ Done("delete", 200)) => SameRows(csv, FieldsOf(store))

\* C10: with a document store, a request whose mirror write failed is still
\* answered with success, its store mutation is in place and the ledger holds
\* the identity's count (save) or no entry for it (delete).
C10_MirrorFailureHarmless ==
    (NoneRunning /\ last.csvFailed /\ variant \in DocVariants) =>
        /\ last.status = 200
        /\ last.kind = "save" =>
              /\ \E i \in DOMAIN store : store[i].submittedAt = last.t
              /\ last.key \in DOMAIN ledger
        /\ last.kind = "delete" =>
              /\ \A i \in DOMAIN store : store[i].email # ToLowerCase(last.email)
              /\ last.key \notin DOMAIN ledger

\* C11: when a store call of POST /save fails, the store holds exactly the
\* records it held before the request.
C11_FailedSaveLeavesStore ==
    (Done("save", 500) /\ last.msg = "store") => store = before

\* C12: when requests of two identities interleave (those of one identity do
\* not), once all requests have completed the count of each identity is the
\* number of its successful submissions since its last reset.
C12_NoCrossIdentityInterference ==
    NoneRunning => \A e \in Identities : GetEditCount(e) = succ[ToLowerCase(e)]

\* the calendar day a document's date names; NaN when absent or unparseable
Day(r) == IF r.date = << >> THEN NaN ELSE ParseDate(r.date)
Listed == {adminOut.rows[i] : i \in DOMAIN adminOut.rows}
Asked == adminOut # NoListing
AsksMonth == adminOut.month # << >>
AsksYear == adminOut.year # << >>

\* C13: with a valid month and/or a year given, GET /admin lists exactly the
\* documents whose date is in that month and in that year; with neither, all.
C13_FilterIsConjunction ==
    (Asked /\ (AsksMonth => ValidMonth(adminOut.month))) =>
        Listed = {r \in adminRecs :
                     /\ AsksMonth => (Day(r) # NaN /\ Day(r).m = NumberOf(adminOut.month))
                     /\ AsksYear => (Day(r) # NaN /\ Day(r).y = NumberOf(adminOut.year))}

\* C14: in the listing every document without a valid date comes before
\* every document with one.
C14_UndatedFirst ==
    \A i, j \in DOMAIN adminOut.rows :
        (Day(adminOut.rows[i]) = NaN /\ Day(adminOut.rows[j]) # NaN) => i < j

\* the display order of two dated documents: month, day, year, name
Precedes(a, b) ==
    LET x == Day(a)
        y == Day(b)
    IN  \/ x.m < y.m
        \/ x.m = y.m /\ x.d < y.d
        \/ x.m = y.m /\ x.d = y.d /\ x.y < y.y
        \/ x = y /\ NameRank(a.name) <= NameRank(b.name)

\* C15: among the documents with valid dates the listing is ordered by month,
\* then day of month, then year, then name.
C15_ListingOrder ==
    \A i, j \in DOMAIN adminOut.rows :
        (i < j /\ Day(adminOut.rows[i]) # NaN /\ Day(adminOut.rows[j]) # NaN) =>
            Precedes(adminOut.rows[i], adminOut.rows[j])

\* C16: GET /edit-count/:email for an email without a ledger entry answers
\* 200 with editCount 0, whatever the server has written to the ledger file.
C16_UnknownEmailCountsZero ==
    (last.kind = "count" /\ last.key \notin DOMAIN ledger) =>
        (last.status = 200 /\ last.editCount = 0)

\* an email whose entry a delete removed is asked for, others have entries
C16_Witness ==
    /\ last.kind = "count" /\ last.key \notin DOMAIN ledger
    /\ last.status = 200
    /\ ledger # << >>
    /\ clock > 2

\* C17: no operation that loads the ledger fails on an unparseable file: it
\* goes on as with an empty ledger.
C17_CorruptLedgerReadAsEmpty ==
    last.kind \in {"save", "count", "delete"} => last.msg # "ledger"

\* the records the save answered last has stored: those of its submittedAt
Batch == {i \in DOMAIN store : SubmittedAtOf(store[i]) = last.t}

\* C18: every record stored by an accepted POST /save carries the email the
\* primary submitted (and the one submittedAt of the request).
C18_BatchSharesEmail ==
    Done("save", 200) =>
        /\ Batch # {}
        /\ \A i \in Batch : RecEmail(store[i]) = last.email

\* C19: the key a save, an edit-count query or a delete works with is the
\* email it was given, lowercased and trimmed; the ledger holds such keys only.
C19_KeyIsLowercasedAndTrimmed ==
    /\ (last.kind \in {"save", "count", "delete"} /\ last.email # << >>) =>
           last.key = Trim(ToLowerCase(last.email))
    /\ \A k \in DOMAIN ledger : k = Trim(k)

\* C20: the records a start-up loads from the CSV file are the records
\* that were written to it, field value by field value.
C20_MirrorRoundTrip == mirror.loaded => mirror.out = mirror.in

\* the rows at the end of the mirror, as many as the store has records
MirrorTail == SubSeq(csv, Len(csv) - Len(store) + 1, Len(csv))

\* C21: once every request of an interleaving has been answered, the last of
\* them with success, the mirror holds the store's records: at the least its
\* last rows are those records, whatever earlier writes left before them.
C21_MirrorEndsWithStore ==
    (NoneRunning /\ last.kind \in {"save", "delete"} /\ last.status = 200) =>
        /\ Len(csv) >= Len(store)
        /\ SameRows(MirrorTail, FieldsOf(store))

\* C22: with requests one at a time, a POST /save that is not answered with
\* success leaves the identity's count as the handler read it, and one that
\* is answered with success leaves a count for the identity in the ledger.
C22_QuotaFollowsResponse ==
    (Done("save", last.status) /\ last.key # << >>) =>
        IF last.status = 200
        THEN last.key \in DOMAIN ledger
        ELSE Count(ledger, last.key) = last.editCount

\* C23: the comparator orders any two records of a listing consistently:
\* if it puts a before b it puts b after a, and if it ties a with b it ties
\* b with a.
C23_ComparatorConsistent ==
    \A i, j \in DOMAIN adminOut.rows :
        i # j =>
            LET a == adminOut.rows[i]
                b == adminOut.rows[j]
            IN  /\ Compare(a, b, tz) < 0 => Compare(b, a, tz) > 0
                /\ Compare(a, b, tz) = 0 => Compare(b, a, tz) = 0

====
